---- MODULE Spec2Model ----
\* Model of tutorials/mpi-scatter-gather-and-allgather/code/avgv.c:
\* world_size MPI processes run the same main(); rank 0 creates an array of
\* pseudo-random numbers, MPI_Scatterv hands every rank its slice, every rank
\* averages its slice, MPI_Gather collects the partial averages on rank 0,
\* rank 0 prints the weighted average and the average of the original data,
\* and all ranks meet in MPI_Barrier before MPI_Finalize.
\*
\* Modelling decisions:
\*  - The program is invoked with one argument (argc = 2) that atoi() reads
\*    as total_num_elements >= 0; the usage exit of lines 73-76 is not part
\*    of the model.
\*  - A float is an exact rational n/d, or NaN (0/0), or Inf (x/0, x > 0).
\*    Rounding is not modelled.
\*  - rand() is a deterministic stream determined by the seed given to
\*    srand(); the stream is a small linear congruential generator.
\*  - The MPI library is not part of the program.  Its collectives follow the
\*    MPI standard: MPI_Barrier returns only when every process of the
\*    communicator has entered it; MPI_Scatterv and MPI_Gather return as soon
\*    as the caller's own part is finished, and an implementation may or may
\*    not make them synchronise.  The implementation's choice is the
\*    variable collective_sync, fixed at start-up.
\*  - malloc may return NULL at every allocation (for a size of 0 this is
\*    implementation-defined); the assert that follows then aborts that
\*    process.  An aborted process stays where it is; the launcher is not
\*    modelled.
EXTENDS Integers, Sequences, FiniteSets, TLC

\* ---------------------------------------------------------------- bounds
MaxTotal == 5       \* total_num_elements ranges over 0..MaxTotal   (Spec)
MaxWorld == 3       \* world_size ranges over 1..MaxWorld           (Spec)
MaxElements == 11   \* elements_to_split ranges over 0..MaxElements (PartSpec)
MaxBins == 4        \* num_bins ranges over 1..MaxBins              (PartSpec)
MaxSeed == 1        \* time(NULL) ranges over 0..MaxSeed
RandMax == 3        \* RAND_MAX of the C library

VARIABLES
  total_num_elements,       \* int total_num_elements (line 78), same on all ranks
  world_size,               \* int world_size (line 87)
  seed,                     \* the value passed to srand (line 80)
  collective_sync,          \* TRUE: the MPI library synchronises every collective
  pc,                       \* pc[r]: where rank r is in main()
  aborted,                  \* aborted[r]: an assert failed in rank r
  rand_nums,                \* float *rand_nums of rank 0 (NULL elsewhere)
  num_elements_by_process,  \* num_elements_by_process[r]: rank r's own array
  displacements,            \* displacements[r]: rank r's own array
  sub_rand_nums,            \* sub_rand_nums[r]: rank r's receive buffer
  sub_avg,                  \* sub_avg[r]: rank r's local average
  sub_avgs,                 \* float *sub_avgs of rank 0
  scatter_buf,              \* what rank 0's MPI_Scatterv has sent to each rank
  gather_buf,               \* what each rank's MPI_Gather has sent to rank 0
  output                    \* the lines written to standard output, in order

vars == <<total_num_elements, world_size, seed, collective_sync, pc, aborted,
          rand_nums, num_elements_by_process, displacements, sub_rand_nums,
          sub_avg, sub_avgs, scatter_buf, gather_buf, output>>

\* ------------------------------------------------------------ float model
RECURSIVE GCD(_, _)
GCD(a, b) == IF b = 0 THEN a ELSE GCD(b, a % b)

NaN == [kind |-> "nan", n |-> 0, d |-> 1]
Inf == [kind |-> "inf", n |-> 0, d |-> 1]
Unset == [kind |-> "unset", n |-> 0, d |-> 1]

\* the rational n/d (n >= 0, d > 0) in lowest terms
Rat(n, d) == LET g == GCD(n, d) IN [kind |-> "num", n |-> n \div g, d |-> d \div g]

FromInt(i) == Rat(i, 1)

IsNaN(x) == x.kind = "nan"

FAdd(x, y) ==
  IF x.kind = "nan" \/ y.kind = "nan" THEN NaN
  ELSE IF x.kind = "inf" \/ y.kind = "inf" THEN Inf
  ELSE Rat(x.n * y.d + y.n * x.d, x.d * y.d)

FMul(x, y) ==
  IF x.kind = "nan" \/ y.kind = "nan" THEN NaN
  ELSE IF x.kind = "inf" THEN (IF y.n = 0 THEN NaN ELSE Inf)
  ELSE IF y.kind = "inf" THEN (IF x.n = 0 THEN NaN ELSE Inf)
  ELSE Rat(x.n * y.n, x.d * y.d)

FDiv(x, y) ==
  IF x.kind = "nan" \/ y.kind = "nan" THEN NaN
  ELSE IF x.kind = "inf" THEN (IF y.kind = "inf" THEN NaN ELSE Inf)
  ELSE IF y.kind = "inf" THEN FromInt(0)
  ELSE IF y.n = 0 THEN (IF x.n = 0 THEN NaN ELSE Inf)
  ELSE Rat(x.n * y.d, x.d * y.n)

\* ------------------------------------------------------- pure functions
Empty == [i \in {} |-> 0]

Ranks == 0 .. (world_size - 1)

\* the k-th state of the generator seeded with s (k >= 1 is the k-th rand())
RECURSIVE RandState(_, _)
RandState(s, k) == IF k = 0 THEN s % 7 ELSE (3 * RandState(s, k - 1) + 1) % 7

\* the value of the k-th call of rand(), in 0..RAND_MAX
Rand(s, k) == RandState(s, k) % (RandMax + 1)

create_rand_nums(num_elements, s) ==
  [i \in 0 .. (num_elements - 1) |-> Rat(Rand(s, i + 1), RandMax)]

\* the for loop of split_num_between_processes, from iteration i on
RECURSIVE SplitLoop(_, _, _, _, _, _)
SplitLoop(i, element_position, counts, displs, elements_to_split, num_bins) ==
  IF i < num_bins - 1
  THEN SplitLoop(i + 1,
                 element_position + (elements_to_split \div num_bins),
                 counts @@ (i :> (elements_to_split \div num_bins)),
                 displs @@ (i :> element_position),
                 elements_to_split, num_bins)
  ELSE [num_elements_by_process |->
          counts @@ ((num_bins - 1) :> (elements_to_split - element_position)),
        displacements |-> displs @@ ((num_bins - 1) :> element_position)]

\* a split that gives the last bin the quotient too and drops the remainder
SplitDropsRemainder(elements_to_split, num_bins) ==
  [num_elements_by_process |->
     [i \in 0 .. (num_bins - 1) |-> elements_to_split \div num_bins],
   displacements |->
     [i \in 0 .. (num_bins - 1) |-> i * (elements_to_split \div num_bins)]]

\* the number of bins before bin i that get one element more when the
\* remainder is spread over the first bins
ExtraBefore(i, elements_to_split, num_bins) ==
  IF i < elements_to_split % num_bins THEN i ELSE elements_to_split % num_bins

\* a split that spreads the remainder over the first bins, one element each
SplitBalanced(elements_to_split, num_bins) ==
  [num_elements_by_process |->
     [i \in 0 .. (num_bins - 1) |->
        (elements_to_split \div num_bins)
          + (IF i < elements_to_split % num_bins THEN 1 ELSE 0)],
   displacements |->
     [i \in 0 .. (num_bins - 1) |->
        i * (elements_to_split \div num_bins)
          + ExtraBefore(i, elements_to_split, num_bins)]]

split_num_between_processes(elements_to_split, num_bins) ==
  SplitLoop(0, 0, Empty, Empty, elements_to_split, num_bins)

\* the for loop of compute_avg, from iteration i on; s is the value of sum
\* after iteration i (bound by the set constructor, so that it is computed
\* once)
RECURSIVE AvgLoop(_, _, _, _)
AvgLoop(i, sum, array, num_elements) ==
  IF i < num_elements
  THEN CHOOSE result \in {AvgLoop(i + 1, s, array, num_elements) :
                            s \in {FAdd(sum, array[i])}} : TRUE
  ELSE sum

compute_avg(array, num_elements) ==
  FDiv(AvgLoop(0, FromInt(0), array, num_elements), FromInt(num_elements))

\* the for loop of compute_weighted_avg, from iteration i on, and the
\* return; s and w are the values of sum and sum_weights after iteration i
RECURSIVE WeightedLoop(_, _, _, _, _, _)
WeightedLoop(i, sum, sum_weights, array, weights_array, num_elements) ==
  IF i < num_elements
  THEN CHOOSE result \in
         {WeightedLoop(i + 1, s, w, array, weights_array, num_elements) :
            s \in {FAdd(sum, FMul(FromInt(weights_array[i]), array[i]))},
            w \in {FAdd(sum_weights, FromInt(weights_array[i]))}} : TRUE
  ELSE FDiv(sum, sum_weights)

\* the plain average of the averages, every weight taken as 1
PlainAvgOfAvgs(array, weights_array, num_elements) ==
  compute_avg(array, num_elements)

compute_weighted_avg(array, weights_array, num_elements) ==
  WeightedLoop(0, FromInt(0), FromInt(0), array, weights_array, num_elements)

\* ------------------------------------------------------------ main()
\* the places of main() a rank can be at, in program order:
\*   create      before create_rand_nums            (lines 91-94, rank 0 only)
\*   split       before the plan and the buffer     (lines 98-108)
\*   scatter     in MPI_Scatterv                    (lines 112-114)
\*   avg         before compute_avg                 (line 117)
\*   alloc_avgs  before the malloc of sub_avgs      (lines 120-124, rank 0 only)
\*   gather      in MPI_Gather                      (line 125)
\*   report      before the prints and the frees    (lines 131-147)
\*   barrier     in MPI_Barrier                     (line 149)
\*   done        after MPI_Finalize                 (line 150)
PcOrder == <<"create", "split", "scatter", "avg", "alloc_avgs", "gather",
             "report", "barrier", "done">>

Pos(where) == CHOOSE k \in 1 .. Len(PcOrder) : PcOrder[k] = where

\* rank q has entered the call at `where`, or is past it
Reached(q, where) == Pos(pc[q]) >= Pos(where)

NoMsg == [posted |-> FALSE, data |-> Empty]

InitWith(max_total, max_world) ==
  /\ total_num_elements \in 0 .. max_total
  /\ world_size \in 1 .. max_world
  /\ seed \in 0 .. MaxSeed
  /\ collective_sync \in BOOLEAN
  /\ pc = [r \in Ranks |-> IF r = 0 THEN "create" ELSE "split"]
  /\ aborted = [r \in Ranks |-> FALSE]
  /\ rand_nums = Empty
  /\ num_elements_by_process = [r \in Ranks |-> Empty]
  /\ displacements = [r \in Ranks |-> Empty]
  /\ sub_rand_nums = [r \in Ranks |-> Empty]
  /\ sub_avg = [r \in Ranks |-> Unset]
  /\ sub_avgs = Empty
  /\ scatter_buf = [r \in Ranks |-> NoMsg]
  /\ gather_buf = [r \in Ranks |-> [posted |-> FALSE, data |-> Unset]]
  /\ output = <<>>

Init == InitWith(MaxTotal, MaxWorld)

\* lines 91-94: rank 0 creates the array
CreateRandNums(p) ==
  /\ p = 0 /\ pc[p] = "create" /\ ~aborted[p]
  /\ rand_nums' = create_rand_nums(total_num_elements, seed)
  /\ pc' = [pc EXCEPT ![p] = "split"]
  /\ UNCHANGED <<total_num_elements, world_size, seed, collective_sync, aborted,
                 num_elements_by_process, displacements, sub_rand_nums, sub_avg,
                 sub_avgs, scatter_buf, gather_buf, output>>

\* lines 98-108: every rank computes the plan and allocates its buffer
Split(p) ==
  /\ pc[p] = "split" /\ ~aborted[p]
  /\ LET plan == split_num_between_processes(total_num_elements, world_size) IN
       /\ num_elements_by_process' =
            [num_elements_by_process EXCEPT ![p] = plan.num_elements_by_process]
       /\ displacements' = [displacements EXCEPT ![p] = plan.displacements]
  /\ pc' = [pc EXCEPT ![p] = "scatter"]
  /\ UNCHANGED <<total_num_elements, world_size, seed, collective_sync, aborted,
                 rand_nums, sub_rand_nums, sub_avg, sub_avgs, scatter_buf,
                 gather_buf, output>>

\* an assert after a malloc fails: line 20 (in create_rand_nums), lines 99,
\* 101, 108, line 123
Abort(p) ==
  /\ ~aborted[p]
  /\ \/ p = 0 /\ pc[p] = "create"
     \/ pc[p] = "split"
     \/ p = 0 /\ pc[p] = "alloc_avgs"
  /\ aborted' = [aborted EXCEPT ![p] = TRUE]
  /\ UNCHANGED <<total_num_elements, world_size, seed, collective_sync, pc,
                 rand_nums, num_elements_by_process, displacements,
                 sub_rand_nums, sub_avg, sub_avgs, scatter_buf, gather_buf,
                 output>>

\* a scatter that ignores displs and sends every rank the head of sendbuf
ScatterChunkNoDispls(sendbuf, sendcounts, displs, r) ==
  [k \in 0 .. (sendcounts[r] - 1) |-> sendbuf[k]]

\* MPI_Scatterv at the root: the sendcounts[r] elements of sendbuf that start
\* at displs[r] go to rank r
ScatterChunk(sendbuf, sendcounts, displs, r) ==
  [k \in 0 .. (sendcounts[r] - 1) |-> sendbuf[displs[r] + k]]

\* a synchronising library lets nobody out of a collective before all are in
SyncReady(where) ==
  collective_sync => \A q \in Ranks : Reached(q, where)

\* lines 112-114 at rank 0: send every slice, keep the own one
ScattervRoot(p) ==
  /\ p = 0 /\ pc[p] = "scatter"
  /\ SyncReady("scatter")
  /\ scatter_buf' =
       [r \in Ranks |->
          [posted |-> TRUE,
           data |-> ScatterChunk(rand_nums, num_elements_by_process[p],
                                 displacements[p], r)]]
  /\ sub_rand_nums' = [sub_rand_nums EXCEPT ![p] =
       ScatterChunk(rand_nums, num_elements_by_process[p], displacements[p], p)]
  /\ pc' = [pc EXCEPT ![p] = "avg"]
  /\ UNCHANGED <<total_num_elements, world_size, seed, collective_sync, aborted,
                 rand_nums, num_elements_by_process, displacements, sub_avg,
                 sub_avgs, gather_buf, output>>

\* lines 112-114 at another rank: receive recvcount elements from the root
ScattervRecv(p) ==
  /\ p # 0 /\ pc[p] = "scatter"
  /\ scatter_buf[p].posted
  /\ sub_rand_nums' = [sub_rand_nums EXCEPT ![p] =
       [k \in 0 .. (num_elements_by_process[p][p] - 1) |-> scatter_buf[p].data[k]]]
  /\ pc' = [pc EXCEPT ![p] = "avg"]
  /\ UNCHANGED <<total_num_elements, world_size, seed, collective_sync, aborted,
                 rand_nums, num_elements_by_process, displacements, sub_avg,
                 sub_avgs, scatter_buf, gather_buf, output>>

\* line 117
ComputeAvg(p) ==
  /\ pc[p] = "avg"
  /\ sub_avg' = [sub_avg EXCEPT ![p] =
       compute_avg(sub_rand_nums[p], num_elements_by_process[p][p])]
  /\ pc' = [pc EXCEPT ![p] = IF p = 0 THEN "alloc_avgs" ELSE "gather"]
  /\ UNCHANGED <<total_num_elements, world_size, seed, collective_sync, aborted,
                 rand_nums, num_elements_by_process, displacements,
                 sub_rand_nums, sub_avgs, scatter_buf, gather_buf, output>>

\* lines 120-124 at rank 0: the receive buffer of the gather
AllocSubAvgs(p) ==
  /\ p = 0 /\ pc[p] = "alloc_avgs" /\ ~aborted[p]
  /\ sub_avgs' = [r \in Ranks |-> Unset]
  /\ pc' = [pc EXCEPT ![p] = "gather"]
  /\ UNCHANGED <<total_num_elements, world_size, seed, collective_sync, aborted,
                 rand_nums, num_elements_by_process, displacements,
                 sub_rand_nums, sub_avg, scatter_buf, gather_buf, output>>

\* line 125 at another rank: send the one float to the root
GatherSend(p) ==
  /\ p # 0 /\ pc[p] = "gather"
  /\ SyncReady("gather")
  /\ gather_buf' = [gather_buf EXCEPT ![p] = [posted |-> TRUE, data |-> sub_avg[p]]]
  /\ pc' = [pc EXCEPT ![p] = "report"]
  /\ UNCHANGED <<total_num_elements, world_size, seed, collective_sync, aborted,
                 rand_nums, num_elements_by_process, displacements,
                 sub_rand_nums, sub_avg, sub_avgs, scatter_buf, output>>

\* a gather whose root waits for nobody
GatherSendersNone == {}

\* a gather whose root waits for a message from itself as well
GatherSendersAll == Ranks

\* the ranks whose message the root's MPI_Gather waits for
GatherSenders == Ranks \ {0}

\* line 125 at rank 0: entry r of recvbuf is rank r's sendbuf
GatherRoot(p) ==
  /\ p = 0 /\ pc[p] = "gather"
  /\ \A q \in GatherSenders : gather_buf[q].posted
  /\ sub_avgs' = [r \in Ranks |-> IF r = p THEN sub_avg[p] ELSE gather_buf[r].data]
  /\ pc' = [pc EXCEPT ![p] = "report"]
  /\ UNCHANGED <<total_num_elements, world_size, seed, collective_sync, aborted,
                 rand_nums, num_elements_by_process, displacements,
                 sub_rand_nums, sub_avg, scatter_buf, gather_buf, output>>

\* the two lines in the other order
ReportLinesSwapped(p) ==
  << [rank |-> p, text |-> "Avg computed across original data is",
      value |-> compute_avg(rand_nums, total_num_elements)],
     [rank |-> p, text |-> "Avg of all elements is",
      value |-> compute_weighted_avg(sub_avgs, num_elements_by_process[p],
                                     world_size)] >>

\* lines 132-137: the two lines rank p prints, in order
ReportLines(p) ==
  << [rank |-> p, text |-> "Avg of all elements is",
      value |-> compute_weighted_avg(sub_avgs, num_elements_by_process[p],
                                     world_size)],
     [rank |-> p, text |-> "Avg computed across original data is",
      value |-> compute_avg(rand_nums, total_num_elements)] >>

\* lines 131-147: rank 0 prints, then every rank frees its buffers
Report(p) ==
  /\ pc[p] = "report"
  /\ output' = IF p = 0 THEN output \o ReportLines(p) ELSE output
  /\ rand_nums' = IF p = 0 THEN Empty ELSE rand_nums
  /\ sub_avgs' = IF p = 0 THEN Empty ELSE sub_avgs
  /\ sub_rand_nums' = [sub_rand_nums EXCEPT ![p] = Empty]
  /\ num_elements_by_process' = [num_elements_by_process EXCEPT ![p] = Empty]
  /\ displacements' = [displacements EXCEPT ![p] = Empty]
  /\ pc' = [pc EXCEPT ![p] = "barrier"]
  /\ UNCHANGED <<total_num_elements, world_size, seed, collective_sync, aborted,
                 sub_avg, scatter_buf, gather_buf>>

\* a barrier that lets a rank through at once
BarrierReadyNoWait == TRUE

\* a barrier that waits only for the ranks that have not aborted
BarrierReadyAmongLive == \A q \in Ranks : aborted[q] \/ Reached(q, "barrier")

\* MPI_Barrier returns only when every rank has entered it
BarrierReady == \A q \in Ranks : Reached(q, "barrier")

\* lines 149-150
Barrier(p) ==
  /\ pc[p] = "barrier"
  /\ BarrierReady
  /\ pc' = [pc EXCEPT ![p] = "done"]
  /\ UNCHANGED <<total_num_elements, world_size, seed, collective_sync, aborted,
                 rand_nums, num_elements_by_process, displacements,
                 sub_rand_nums, sub_avg, sub_avgs, scatter_buf, gather_buf,
                 output>>

\* one step of rank p when no allocation fails
Step(p) ==
  /\ p \in Ranks
  /\ \/ CreateRandNums(p)
     \/ Split(p)
     \/ ScattervRoot(p)
     \/ ScattervRecv(p)
     \/ ComputeAvg(p)
     \/ AllocSubAvgs(p)
     \/ GatherSend(p)
     \/ GatherRoot(p)
     \/ Report(p)
     \/ Barrier(p)

\* every rank runs and no allocation fails
LiveNext ==
  \/ \E p \in Ranks : CreateRandNums(p)
  \/ \E p \in Ranks : Split(p)
  \/ \E p \in Ranks : ScattervRoot(p)
  \/ \E p \in Ranks : ScattervRecv(p)
  \/ \E p \in Ranks : ComputeAvg(p)
  \/ \E p \in Ranks : AllocSubAvgs(p)
  \/ \E p \in Ranks : GatherSend(p)
  \/ \E p \in Ranks : GatherRoot(p)
  \/ \E p \in Ranks : Report(p)
  \/ \E p \in Ranks : Barrier(p)

Next ==
  \/ LiveNext
  \/ \E p \in Ranks : Abort(p)

Spec == Init /\ [][Next]_vars

\* no allocation fails, and every rank that can take a step eventually does
LiveSpec ==
  Init /\ [][LiveNext]_vars /\ \A p \in 0 .. (MaxWorld - 1) : WF_vars(Step(p))

\* the program up to the first collective, over a wider range of inputs
PartInit == InitWith(MaxElements, MaxBins)

PartNext ==
  \/ \E p \in Ranks : CreateRandNums(p)
  \/ \E p \in Ranks : Split(p)

PartSpec == PartInit /\ [][PartNext]_vars

\* ================================================================ claims
\* the sum of f[0], ..., f[k-1]
RECURSIVE SumTo(_, _)
SumTo(f, k) == IF k = 0 THEN 0 ELSE SumTo(f, k - 1) + f[k - 1]

\* rank p has computed its plan and has not freed it yet
HasPlan(p) == Pos(pc[p]) > Pos("split") /\ Pos(pc[p]) <= Pos("report")

\* C1: for every total_elements >= 0 and num_workers >= 1 the plan of
\* split_num_between_processes has counts that sum to total_elements and
\* offset[i] = count[0] + ... + count[i-1] for every worker i (with every
\* count >= 0): the slices cover the array with no gap and no overlap.
C1_PlanCoversArray ==
  \A p \in Ranks :
    HasPlan(p) =>
      /\ DOMAIN num_elements_by_process[p] = Ranks
      /\ DOMAIN displacements[p] = Ranks
      /\ SumTo(num_elements_by_process[p], world_size) = total_num_elements
      /\ \A i \in Ranks :
           /\ num_elements_by_process[p][i] >= 0
           /\ displacements[p][i] = SumTo(num_elements_by_process[p], i)

\* a plan with a remainder on the last of at least three workers
C1_Witness ==
  \E p \in Ranks :
    /\ HasPlan(p)
    /\ world_size >= 3
    /\ total_num_elements % world_size >= 2

\* C6: each of the first num_workers-1 workers gets floor(total_elements /
\* num_workers) elements, at offsets that accumulate, and the last worker gets
\* all the rest; 10 elements over 3 workers give counts {3,3,4} and offsets
\* {0,3,6}.
C6_RemainderToLast ==
  \A p \in Ranks :
    HasPlan(p) =>
      /\ \A i \in 0 .. (world_size - 2) :
           /\ num_elements_by_process[p][i] = total_num_elements \div world_size
           /\ displacements[p][i] = i * (total_num_elements \div world_size)
      /\ num_elements_by_process[p][world_size - 1] =
           total_num_elements
             - (world_size - 1) * (total_num_elements \div world_size)
      /\ displacements[p][world_size - 1] =
           (world_size - 1) * (total_num_elements \div world_size)
      /\ (total_num_elements = 10 /\ world_size = 3) =>
           /\ num_elements_by_process[p] = (0 :> 3) @@ (1 :> 3) @@ (2 :> 4)
           /\ displacements[p] = (0 :> 0) @@ (1 :> 3) @@ (2 :> 6)

\* the plan of 10 elements over 3 workers
C6_Witness ==
  /\ total_num_elements = 10
  /\ world_size = 3
  /\ \A p \in Ranks : HasPlan(p)
  /\ num_elements_by_process[2][2] = 4

\* the array rank 0 created (rank 0 frees rand_nums after printing)
GlobalArray == create_rand_nums(total_num_elements, seed)

\* the scatter has completed on rank r and r has not freed its slice yet
HoldsSlice(r) == Pos(pc[r]) > Pos("scatter") /\ Pos(pc[r]) <= Pos("report")

\* the function f of domain 0..n-1 as a sequence
AsSeq(f, n) == [k \in 1 .. n |-> f[k - 1]]

\* the slices of ranks r, r+1, ..., world_size-1 one after the other
RECURSIVE ConcatSlices(_)
ConcatSlices(r) ==
  IF r >= world_size THEN <<>>
  ELSE AsSeq(sub_rand_nums[r], num_elements_by_process[r][r]) \o ConcatSlices(r + 1)

\* C2: after the scatter completes, rank r holds exactly the elements
\* GlobalArray[offset[r] .. offset[r]+count[r]) in order, and the slices of
\* all ranks, concatenated in rank order, are the Global Array.
C2_ScatterRoundTrip ==
  /\ \A r \in Ranks :
       HoldsSlice(r) =>
         /\ DOMAIN sub_rand_nums[r] = 0 .. (num_elements_by_process[r][r] - 1)
         /\ \A k \in DOMAIN sub_rand_nums[r] :
              sub_rand_nums[r][k] = GlobalArray[displacements[r][r] + k]
  /\ (\A r \in Ranks : HoldsSlice(r)) =>
       ConcatSlices(0) = AsSeq(GlobalArray, total_num_elements)

\* three ranks hold their slices of an array of unequal elements, the last
\* slice longer than the others
C2_Witness ==
  /\ world_size = 3
  /\ total_num_elements = 4
  /\ \A r \in Ranks : HoldsSlice(r)
  /\ sub_rand_nums[1][0] # sub_rand_nums[0][0]
  /\ Len(ConcatSlices(0)) = 4

\* the three collectives
Collectives == {"scatter", "gather", "barrier"}

ThePlan == split_num_between_processes(total_num_elements, world_size)

\* C4: when no rank has a count of zero, the weighted average of the ranks'
\* means, weighted by the counts, is the mean of the whole array: the first
\* printed value equals the second, also when the counts are unequal.
C4_WeightedAvgIsMean ==
  /\ (pc[0] = "report" /\ \A r \in Ranks : num_elements_by_process[0][r] > 0) =>
       /\ \A r \in Ranks : sub_avgs[r].kind = "num"
       /\ compute_weighted_avg(sub_avgs, num_elements_by_process[0], world_size)
            = compute_avg(rand_nums, total_num_elements)
  /\ (Len(output) = 2 /\ \A r \in Ranks : ThePlan.num_elements_by_process[r] > 0) =>
       /\ output[1].value.kind = "num"
       /\ output[1].value = output[2].value

\* both lines printed for three ranks, the last with more elements than the
\* others, where the plain average of the three means is not the mean
C4_Witness ==
  /\ Len(output) = 2
  /\ world_size = 3
  /\ total_num_elements = MaxTotal
  /\ ThePlan.num_elements_by_process[2] > ThePlan.num_elements_by_process[0]
  /\ ThePlan.num_elements_by_process[0] > 0
  /\ compute_avg(sub_avg, world_size) # output[2].value

\* C5: with more workers than elements some worker has a count of zero, and
\* that worker does not get past the Local Averager with a NaN: every rank
\* past compute_avg holds a number, and no NaN is sent to the aggregation.
C5_EmptySliceSignalsError ==
  world_size > total_num_elements =>
    /\ \A p \in Ranks :
         HasPlan(p) => \E r \in Ranks : num_elements_by_process[p][r] = 0
    /\ \A p \in Ranks :
         /\ Pos(pc[p]) > Pos("avg") => sub_avg[p].kind = "num"
         /\ gather_buf[p].posted => gather_buf[p].data.kind = "num"

\* C7: when the gather has completed on rank 0, sub_avgs has one entry per
\* rank and entry i is the local average rank i computed, the mean of rank
\* i's slice; rank 0 does not get to read sub_avgs while a contribution is
\* missing.
C7_GatherComplete ==
  pc[0] = "report" =>
    /\ DOMAIN sub_avgs = Ranks
    /\ \A i \in Ranks :
         /\ Pos(pc[i]) > Pos("avg")
         /\ sub_avgs[i] # Unset
         /\ sub_avgs[i] = sub_avg[i]
         /\ sub_avgs[i] =
              compute_avg(ScatterChunk(rand_nums, num_elements_by_process[0],
                                       displacements[0], i),
                          num_elements_by_process[0][i])

\* rank 0 is about to read three different averages
C7_Witness ==
  /\ pc[0] = "report"
  /\ world_size = 3
  /\ sub_avgs[0].kind = "num"
  /\ sub_avgs[1] # sub_avgs[0]
  /\ sub_avgs[2] # sub_avgs[1]
  /\ sub_avgs[2] # sub_avgs[0]

\* the collective an aborted rank at pc[p] was on its way to
NextCollective(p) == IF Pos(pc[p]) <= Pos("scatter") THEN "scatter" ELSE "gather"

AllDone == \A p \in Ranks : pc[p] = "done"

\* C9: when every rank runs, no allocation fails and the ranks are scheduled
\* fairly, every rank eventually is past the distribution, the aggregation
\* and the barrier and finalizes; no rank ever goes back in the pipeline.
C9_Terminates ==
  /\ <>AllDone
  /\ [][\A p \in Ranks : Pos(pc'[p]) >= Pos(pc[p])]_vars

\* three ranks, all finalized
C9_Witness ==
  /\ world_size = 3
  /\ AllDone

\* the averages of all ranks, as rank 0 gathers them
AllSubAvgs == [r \in Ranks |-> sub_avg[r]]

\* C10: only rank 0 prints; it prints two lines, the weighted average first
\* and the average of the original data second, after the aggregation has
\* completed and before any rank leaves the final barrier.
C10_RootPrintsTwoLines ==
  /\ \A i \in 1 .. Len(output) : output[i].rank = 0
  /\ Len(output) = (IF Pos(pc[0]) > Pos("report") THEN 2 ELSE 0)
  /\ output # <<>> =>
       /\ output[1].text = "Avg of all elements is"
       /\ output[1].value =
            compute_weighted_avg(AllSubAvgs, ThePlan.num_elements_by_process,
                                 world_size)
       /\ output[2].text = "Avg computed across original data is"
       /\ output[2].value = compute_avg(GlobalArray, total_num_elements)
       /\ \A q \in Ranks : q # 0 => gather_buf[q].posted
  /\ (\E p \in Ranks : pc[p] = "done") => Len(output) = 2

\* rank 0 has printed a positive average and rank 1 has left the barrier
C10_Witness ==
  /\ world_size >= 2
  /\ Len(output) = 2
  /\ pc[1] = "done"
  /\ output[1].value.kind = "num"
  /\ output[1].value.n > 0

====
